---- MODULE Spec2Model ----
(***************************************************************************)
(* A model of the click package installer's core:                          *)
(*   - handle_args            (src/src/command_parser.rs), the dispatcher  *)
(*   - Versions::*            (src/src/versions.rs), the version resolver  *)
(* Strings are sequences of one-character strings so that to_lowercase,    *)
(* split, format! and the byte-wise string order are computed.             *)
(***************************************************************************)
EXTENDS Integers, Sequences, FiniteSets, TLC

(***************************************************************************)
(* Bounds of the model.                                                    *)
(***************************************************************************)
\* number of arguments that may follow the command token
MaxArgs == 1
\* largest major / minor / patch number of a constraint
MaxVer == 2
\* largest number of versions in a catalog
MaxCatalog == 3
\* longest package specifier given to parse_package_details
MaxLen == 4

VARIABLES
    \* ---- handle_args ----
    argv,               \* the process arguments as given
    args,               \* the Args iterator: what is left of argv
    pc,                 \* position inside handle_args
    command,            \* the command token, as given
    command_handler,    \* the selected handler
    calls,              \* the handler methods invoked so far, in order
    parse_result,       \* what command_handler.parse returned
    command_result,     \* what command_handler.execute returned
    ret,                \* the value handle_args returned
    stdout,             \* the lines printed
    \* ---- Versions::resolve_full_version / resolve_partial_version ----
    semantic_version,   \* Option<&Comparator>
    available_versions, \* the keys of the catalog HashMap
    iter_order,         \* the order in which the HashMap yielded its keys
    overflow_checks,    \* build profile: TRUE = debug, FALSE = release
    op_called,          \* which resolver function ran
    result,             \* what it returned
    \* ---- Versions::parse_package_details ----
    details,            \* the specifier string
    parsed              \* what parse_package_details returned

dvars == <<argv, args, pc, command, command_handler, calls, parse_result,
           command_result, ret, stdout>>
rvars == <<semantic_version, available_versions, iter_order, overflow_checks,
           op_called, result>>
pvars == <<details, parsed>>
vars == <<dvars, rvars, pvars>>

(***************************************************************************)
(* Strings.                                                                *)
(***************************************************************************)
\* str::to_lowercase, one character
ToLowerChar(c) ==
    CASE c = "A" -> "a" [] c = "E" -> "e" [] c = "I" -> "i" [] c = "L" -> "l"
      [] c = "M" -> "m" [] c = "N" -> "n" [] c = "O" -> "o" [] c = "R" -> "r"
      [] c = "S" -> "s" [] c = "T" -> "t" [] c = "V" -> "v"
      [] OTHER -> c

ToUpperChar(c) ==
    CASE c = "a" -> "A" [] c = "e" -> "E" [] c = "i" -> "I" [] c = "l" -> "L"
      [] c = "m" -> "M" [] c = "n" -> "N" [] c = "o" -> "O" [] c = "r" -> "R"
      [] c = "s" -> "S" [] c = "t" -> "T" [] c = "v" -> "V"
      [] OTHER -> c

\* the command matched as typed
to_lowercase_omitted(s) == s

\* command.to_lowercase()
to_lowercase(s) == [i \in 1..Len(s) |-> ToLowerChar(s[i])]

INSTALL == <<"i", "n", "s", "t", "a", "l", "l">>
REMOVE == <<"r", "e", "m", "o", "v", "e">>
INSTAL == <<"i", "n", "s", "t", "a", "l">>
BINARY == <<"c", "l", "i", "c", "k">>
PKG == <<"p", "k", "g">>

\* every casing of a word
Casings(w) ==
    {[i \in 1..Len(w) |-> IF i \in S THEN ToUpperChar(w[i]) ELSE w[i]] :
        S \in SUBSET (1..Len(w))}

\* the command tokens tried at argv[1]
Tokens ==
    Casings(INSTALL) \cup Casings(REMOVE) \cup Casings(INSTAL)
        \cup {<<>>, INSTALL \o <<"s">>, <<"u", "n">> \o INSTALL}

(***************************************************************************)
(* Results.                                                                *)
(***************************************************************************)
NoValue == [tag |-> "none", val |-> <<>>]
Ok(v) == [tag |-> "Ok", val |-> v]
Err(e) == [tag |-> "Err", val |-> e]
Some(v) == [tag |-> "Some", val |-> v]
None == [tag |-> "None", val |-> <<>>]
Panic(msg) == [tag |-> "panic", val |-> msg]

\* ParseError::CommandNotFound(name)
CommandNotFound(name) == [error |-> "CommandNotFound", arg |-> name]
\* the ParseErrors a handler's parse may return
HandlerParseErrors == {[error |-> "InvalidVersionNotation", arg |-> <<>>]}
\* the CommandErrors a handler's execute may return
HandlerCommandErrors ==
    {[error |-> "InvalidVersion", arg |-> <<>>],
     [error |-> "HTTPFailed", arg |-> <<>>]}

(***************************************************************************)
(* handle_args.                                                            *)
(***************************************************************************)
\* Iterator::next on Args
ArgsNext(a) == IF a = <<>> THEN None ELSE Some(Head(a))
ArgsRest(a) == IF a = <<>> THEN <<>> ELSE Tail(a)

\* the match table of the dispatcher
SelectHandler(lowered) ==
    IF lowered = INSTALL THEN Some("Installer") ELSE None

\* the resolver is not running
IdleResolve ==
    /\ semantic_version = None
    /\ available_versions = {}
    /\ iter_order = <<>>
    /\ overflow_checks = FALSE
    /\ op_called = "none"
    /\ result = NoValue

\* the specifier parser is not running
IdleParse ==
    /\ details = <<>>
    /\ parsed = NoValue

\* the dispatcher is not running
IdleDispatch ==
    /\ argv = <<>>
    /\ args = <<>>
    /\ pc = "idle"
    /\ command = <<>>
    /\ command_handler = "none"
    /\ calls = <<>>
    /\ parse_result = NoValue
    /\ command_result = NoValue
    /\ ret = NoValue
    /\ stdout = <<>>

InitDispatch ==
    /\ argv \in {<<>>, <<BINARY>>}
            \cup {<<BINARY, t>> \o rest :
                    t \in Tokens,
                    rest \in UNION {[1..n -> {PKG}] : n \in 0..MaxArgs}}
    /\ args = argv
    /\ pc = "start"
    /\ command = <<>>
    /\ command_handler = "none"
    /\ calls = <<>>
    /\ parse_result = NoValue
    /\ command_result = NoValue
    /\ ret = NoValue
    /\ stdout = <<>>
    /\ IdleResolve
    /\ IdleParse

\* lines 17-31: drop the binary, read the command, select the handler
HandleArgsSelect ==
    /\ pc = "start"
    /\ LET afterBinary == ArgsRest(args)
           c == ArgsNext(afterBinary)
       IN  /\ args' = ArgsRest(afterBinary)
           /\ IF c.tag = "None"
              THEN /\ stdout' = Append(stdout, <<"No help menu implemented yet.">>)
                   /\ ret' = Ok(<<>>)
                   /\ pc' = "done"
                   /\ UNCHANGED <<command, command_handler>>
              ELSE /\ command' = c.val
                   /\ LET h == SelectHandler(to_lowercase(c.val))
                      IN  IF h.tag = "Some"
                          THEN /\ command_handler' = h.val
                               /\ pc' = "parse"
                               /\ UNCHANGED <<ret, stdout>>
                          ELSE /\ ret' = Err(CommandNotFound(c.val))
                               /\ pc' = "done"
                               /\ UNCHANGED <<command_handler, stdout>>
    /\ UNCHANGED <<argv, calls, parse_result, command_result, rvars, pvars>>

\* parse called without the ?: its error is dropped
HandleArgsParse_ErrorDropped ==
    /\ pc = "parse"
    /\ calls' = Append(calls, "parse")
    /\ \E k \in 0..Len(args) : args' = SubSeq(args, k + 1, Len(args))
    /\ \E r \in {Ok(<<>>)} \cup {Err(e) : e \in HandlerParseErrors} :
          parse_result' = r
    /\ pc' = "execute"
    /\ UNCHANGED <<argv, command, command_handler, command_result, ret, stdout,
                   rvars, pvars>>

\* line 33: command_handler.parse(&mut args)?
HandleArgsParse ==
    /\ pc = "parse"
    /\ calls' = Append(calls, "parse")
    /\ \E k \in 0..Len(args) : args' = SubSeq(args, k + 1, Len(args))
    /\ \E r \in {Ok(<<>>)} \cup {Err(e) : e \in HandlerParseErrors} :
          /\ parse_result' = r
          /\ IF r.tag = "Err"
             THEN /\ ret' = r
                  /\ pc' = "done"
             ELSE /\ pc' = "execute"
                  /\ UNCHANGED ret
    /\ UNCHANGED <<argv, command, command_handler, command_result, stdout, rvars, pvars>>

\* the CommandError returned to the caller instead of printed
HandleArgsExecute_ErrorReturned ==
    /\ pc = "execute"
    /\ calls' = Append(calls, "execute")
    /\ \E r \in {Ok(<<>>)} \cup {Err(e) : e \in HandlerCommandErrors} :
          /\ command_result' = r
          /\ ret' = r
          /\ pc' = "done"
    /\ UNCHANGED <<argv, args, command, command_handler, parse_result, stdout,
                   rvars, pvars>>

\* lines 34-40: execute, report a CommandError, return Ok
HandleArgsExecute ==
    /\ pc = "execute"
    /\ calls' = Append(calls, "execute")
    /\ \E r \in {Ok(<<>>)} \cup {Err(e) : e \in HandlerCommandErrors} :
          /\ command_result' = r
          /\ stdout' = IF r.tag = "Err"
                       THEN Append(stdout, <<"Command error: ", r.val.error>>)
                       ELSE stdout
          /\ ret' = Ok(<<>>)
          /\ pc' = "done"
    /\ UNCHANGED <<argv, args, command, command_handler, parse_result, rvars, pvars>>

Init == InitDispatch

Next ==
    \/ HandleArgsSelect
    \/ HandleArgsParse
    \/ HandleArgsExecute

\* one run of handle_args
Spec == Init /\ [][Next]_vars

(***************************************************************************)
(* Versions: strings of version numbers.                                   *)
(***************************************************************************)
Digits == <<"0", "1", "2", "3", "4", "5", "6", "7", "8", "9">>

\* the byte of a character, for String's Ord
CharCode(c) ==
    CASE c = "*" -> 42 [] c = "." -> 46
      [] c = "0" -> 48 [] c = "1" -> 49 [] c = "2" -> 50 [] c = "3" -> 51
      [] c = "4" -> 52 [] c = "5" -> 53 [] c = "6" -> 54 [] c = "7" -> 55
      [] c = "8" -> 56 [] c = "9" -> 57
      [] c = "<" -> 60 [] c = "@" -> 64
      [] c = "a" -> 97 [] c = "b" -> 98 [] c = "e" -> 101 [] c = "g" -> 103
      [] c = "k" -> 107 [] c = "l" -> 108 [] c = "o" -> 111 [] c = "p" -> 112
      [] c = "s" -> 115 [] c = "t" -> 116 [] c = "u" -> 117
      [] OTHER -> 0

IsDigit(c) == CharCode(c) >= 48 /\ CharCode(c) <= 57
DigitValue(c) == CharCode(c) - 48

\* format!("{}", n) of a u64
RECURSIVE ToDec(_)
ToDec(n) ==
    IF n < 10 THEN <<Digits[n + 1]>>
    ELSE ToDec(n \div 10) \o <<Digits[(n % 10) + 1]>>

\* format!("{}.{}.{}", major, minor, patch)
to_string(major, minor, patch) ==
    ToDec(major) \o <<".">> \o ToDec(minor) \o <<".">> \o ToDec(patch)

\* String::cmp(a, b) = Less: byte-wise lexicographic order
RECURSIVE StrLess(_, _)
StrLess(a, b) ==
    IF b = <<>> THEN FALSE
    ELSE IF a = <<>> THEN TRUE
    ELSE IF CharCode(Head(a)) # CharCode(Head(b))
         THEN CharCode(Head(a)) < CharCode(Head(b))
    ELSE StrLess(Tail(a), Tail(b))

\* the pieces of s between occurrences of the separator
RECURSIVE Split(_, _)
Split(s, sep) ==
    IF \A i \in 1..Len(s) : s[i] # sep THEN <<s>>
    ELSE LET i == CHOOSE j \in 1..Len(s) :
                      s[j] = sep /\ \A k \in 1..(j - 1) : s[k] # sep
         IN  <<SubSeq(s, 1, i - 1)>> \o Split(SubSeq(s, i + 1, Len(s)), sep)

\* a numeric identifier of semver: digits, no leading zero
IsNumericIdentifier(s) ==
    /\ s # <<>>
    /\ \A i \in 1..Len(s) : IsDigit(s[i])
    /\ (Len(s) > 1 => s[1] # "0")

RECURSIVE DecValue(_)
DecValue(s) ==
    IF s = <<>> THEN 0
    ELSE 10 * DecValue(SubSeq(s, 1, Len(s) - 1)) + DigitValue(s[Len(s)])

Version(major, minor, patch) == [major |-> major, minor |-> minor, patch |-> patch]
EMPTY_VERSION == Version(0, 0, 0)

\* Version::from_str(version_str).unwrap_or(EMPTY_VERSION)
VersionFromStrOrEmpty(s) ==
    LET parts == Split(s, ".")
    IN  IF Len(parts) = 3 /\ \A i \in 1..3 : IsNumericIdentifier(parts[i])
        THEN Version(DecValue(parts[1]), DecValue(parts[2]), DecValue(parts[3]))
        ELSE EMPTY_VERSION

(***************************************************************************)
(* semver::Comparator.  The prerelease of a comparator and of a version    *)
(* is empty throughout (Prerelease::EMPTY).                                *)
(***************************************************************************)
Ops == {"Exact", "Greater", "GreaterEq", "Less", "LessEq", "Tilde", "Caret",
        "Wildcard"}

Comparator(op, major, minor, patch) ==
    [op |-> op, major |-> major, minor |-> minor, patch |-> patch]

OptNums == {None} \cup {Some(n) : n \in 0..MaxVer}

\* the comparators a parsed requirement can hold: a patch only after a minor
Comparators ==
    {c \in [op : Ops, major : 0..MaxVer, minor : OptNums, patch : OptNums] :
        c.patch.tag = "Some" => c.minor.tag = "Some"}

matches_exact(cmp, ver) ==
    /\ ver.major = cmp.major
    /\ (cmp.minor.tag = "Some" => ver.minor = cmp.minor.val)
    /\ (cmp.patch.tag = "Some" => ver.patch = cmp.patch.val)

matches_greater(cmp, ver) ==
    IF ver.major # cmp.major THEN ver.major > cmp.major
    ELSE IF cmp.minor.tag = "None" THEN FALSE
    ELSE IF ver.minor # cmp.minor.val THEN ver.minor > cmp.minor.val
    ELSE IF cmp.patch.tag = "None" THEN FALSE
    ELSE IF ver.patch # cmp.patch.val THEN ver.patch > cmp.patch.val
    ELSE FALSE

matches_less(cmp, ver) ==
    IF ver.major # cmp.major THEN ver.major < cmp.major
    ELSE IF cmp.minor.tag = "None" THEN FALSE
    ELSE IF ver.minor # cmp.minor.val THEN ver.minor < cmp.minor.val
    ELSE IF cmp.patch.tag = "None" THEN FALSE
    ELSE IF ver.patch # cmp.patch.val THEN ver.patch < cmp.patch.val
    ELSE FALSE

matches_tilde(cmp, ver) ==
    IF ver.major # cmp.major THEN FALSE
    ELSE IF cmp.minor.tag = "Some" /\ ver.minor # cmp.minor.val THEN FALSE
    ELSE IF cmp.patch.tag = "Some" /\ ver.patch # cmp.patch.val
         THEN ver.patch > cmp.patch.val
    ELSE TRUE

matches_caret(cmp, ver) ==
    IF ver.major # cmp.major THEN FALSE
    ELSE IF cmp.minor.tag = "None" THEN TRUE
    ELSE IF cmp.patch.tag = "None"
         THEN IF cmp.major > 0 THEN ver.minor >= cmp.minor.val
              ELSE ver.minor = cmp.minor.val
    ELSE IF cmp.major > 0
         THEN IF ver.minor # cmp.minor.val THEN ver.minor > cmp.minor.val
              ELSE IF ver.patch # cmp.patch.val THEN ver.patch > cmp.patch.val
              ELSE TRUE
    ELSE IF cmp.minor.val > 0
         THEN IF ver.minor # cmp.minor.val THEN FALSE
              ELSE IF ver.patch # cmp.patch.val THEN ver.patch > cmp.patch.val
              ELSE TRUE
    ELSE ver.minor = cmp.minor.val /\ ver.patch = cmp.patch.val

\* semantic_version.matches(&version)
matches(cmp, ver) ==
    CASE cmp.op \in {"Exact", "Wildcard"} -> matches_exact(cmp, ver)
      [] cmp.op = "Greater" -> matches_greater(cmp, ver)
      [] cmp.op = "GreaterEq" -> matches_exact(cmp, ver) \/ matches_greater(cmp, ver)
      [] cmp.op = "Less" -> matches_less(cmp, ver)
      [] cmp.op = "LessEq" -> matches_exact(cmp, ver) \/ matches_less(cmp, ver)
      [] cmp.op = "Tilde" -> matches_tilde(cmp, ver)
      [] cmp.op = "Caret" -> matches_caret(cmp, ver)

(***************************************************************************)
(* Versions::resolve_full_version.                                         *)
(***************************************************************************)
LATEST == <<"l", "a", "t", "e", "s", "t">>

\* Op::Less listed with Op::LessEq
resolve_full_version_LessAsLessEq(sv) ==
    IF sv.tag = "None" THEN Some(LATEST)
    ELSE LET c == sv.val
         IN  IF ~(c.minor.tag = "Some" /\ c.patch.tag = "Some") THEN None
             ELSE IF c.op \in {"Greater", "GreaterEq", "Wildcard"} THEN Some(LATEST)
             ELSE Some(to_string(c.major, c.minor.val, c.patch.val))

resolve_full_version(sv) ==
    IF sv.tag = "None" THEN Some(LATEST)
    ELSE LET c == sv.val
         IN  IF ~(c.minor.tag = "Some" /\ c.patch.tag = "Some") THEN None
             ELSE IF c.op \in {"Greater", "GreaterEq", "Wildcard"} THEN Some(LATEST)
             ELSE IF c.op \in {"Exact", "LessEq", "Tilde", "Caret"}
                  THEN Some(to_string(c.major, c.minor.val, c.patch.val))
             ELSE None

(***************************************************************************)
(* Versions::resolve_partial_version.                                      *)
(***************************************************************************)
\* Versions::sort: ascending by the raw key (the keys of a map are distinct)
RECURSIVE InsertSorted(_, _)
InsertSorted(sorted, k) ==
    IF sorted = <<>> THEN <<k>>
    ELSE IF StrLess(k, Head(sorted)) THEN <<k>> \o sorted
    ELSE <<Head(sorted)>> \o InsertSorted(Tail(sorted), k)

\* the vector left in the order the map yielded it
sort_omitted(versions_vec) == versions_vec

RECURSIVE sort(_)
sort(versions_vec) ==
    IF versions_vec = <<>> THEN <<>>
    ELSE InsertSorted(sort(SubSeq(versions_vec, 1, Len(versions_vec) - 1)),
                      versions_vec[Len(versions_vec)])

\* Iterator::position, zero-based
position(versions, key) ==
    IF \E i \in 1..Len(versions) : versions[i] = key
    THEN Some((CHOOSE i \in 1..Len(versions) :
                  versions[i] = key /\ \A j \in 1..(i - 1) : versions[j] # key) - 1)
    ELSE None

\* the largest usize; TLC's integers are 32 bits wide, so 2^31 - 1 stands for
\* 2^64 - 1: either is beyond the length of any vector
UsizeMax == 2147483647

\* version_position - 1 in a build without overflow checks
WrappingDecrement(n) == IF n = 0 THEN UsizeMax ELSE n - 1

\* Vec::get, zero-based
Get(versions, idx) ==
    IF idx >= 0 /\ idx < Len(versions) THEN Some(versions[idx + 1]) ELSE None

\* the parsed version formatted and returned instead of the key
RECURSIVE ScanRev_ParsedReturned(_, _)
ScanRev_ParsedReturned(versions, cmp) ==
    IF versions = <<>> THEN Err("InvalidVersion")
    ELSE LET version == VersionFromStrOrEmpty(versions[Len(versions)])
         IN  IF matches(cmp, version)
             THEN Ok(to_string(version.major, version.minor, version.patch))
             ELSE ScanRev_ParsedReturned(SubSeq(versions, 1, Len(versions) - 1), cmp)

\* lines 109-117: the first key from the back that matches
RECURSIVE ScanRev(_, _)
ScanRev(versions, cmp) ==
    IF versions = <<>> THEN Err("InvalidVersion")
    ELSE LET version_str == versions[Len(versions)]
         IN  IF matches(cmp, VersionFromStrOrEmpty(version_str))
             THEN Ok(version_str)
             ELSE ScanRev(SubSeq(versions, 1, Len(versions) - 1), cmp)

\* a missing exact version falls through to the scan
resolve_partial_version_FallThrough(sv, order, checks) ==
    IF sv.tag = "None"
    THEN Panic("Function should not be called as the version can be resolved to 'latest'")
    ELSE LET c == sv.val
             sorted == sort(order)
             version_position ==
                 position(sorted, to_string(c.major, c.minor.val, c.patch.val))
         IN  IF /\ c.op = "Less" /\ c.minor.tag = "Some" /\ c.patch.tag = "Some"
                /\ version_position.tag = "Some"
             THEN IF version_position.val = 0 /\ checks
                  THEN Panic("attempt to subtract with overflow")
                  ELSE LET got == Get(sorted, WrappingDecrement(version_position.val))
                       IN  IF got.tag = "None"
                           THEN Panic("Invalid version provided (no smaller versions available)")
                           ELSE Ok(got.val)
             ELSE ScanRev(order, c)

\* order: the keys as available_versions.iter() yields them
resolve_partial_version(sv, order, checks) ==
    IF sv.tag = "None"
    THEN Panic("Function should not be called as the version can be resolved to 'latest'")
    ELSE LET c == sv.val
             sorted == sort(order)
         IN  IF c.op = "Less" /\ c.minor.tag = "Some" /\ c.patch.tag = "Some"
             THEN LET version_position ==
                          position(sorted, to_string(c.major, c.minor.val, c.patch.val))
                  IN  IF version_position.tag = "None" THEN Err("InvalidVersion")
                      ELSE IF version_position.val = 0 /\ checks
                           THEN Panic("attempt to subtract with overflow")
                      ELSE LET got == Get(sorted, WrappingDecrement(version_position.val))
                           IN  IF got.tag = "None"
                               THEN Panic("Invalid version provided (no smaller versions available)")
                               ELSE Ok(got.val)
             \* line 106 collects the map again: the scan runs over the
             \* keys in the order the map yields them, not over the sorted vector
             ELSE ScanRev(order, c)

(***************************************************************************)
(* semver::VersionReq::parse, for requirements without spaces, prerelease  *)
(* or build metadata.                                                      *)
(***************************************************************************)
Drop(s, n) == SubSeq(s, n + 1, Len(s))
StartsWith(s, c) == s # <<>> /\ s[1] = c
IsWildcardChar(c) == c \in {"*", "x", "X"}

\* parse::op
ParseOp(input) ==
    IF StartsWith(input, "=") THEN [op |-> "Exact", rest |-> Drop(input, 1)]
    ELSE IF StartsWith(input, ">")
         THEN IF StartsWith(Drop(input, 1), "=")
              THEN [op |-> "GreaterEq", rest |-> Drop(input, 2)]
              ELSE [op |-> "Greater", rest |-> Drop(input, 1)]
    ELSE IF StartsWith(input, "<")
         THEN IF StartsWith(Drop(input, 1), "=")
              THEN [op |-> "LessEq", rest |-> Drop(input, 2)]
              ELSE [op |-> "Less", rest |-> Drop(input, 1)]
    ELSE IF StartsWith(input, "~") THEN [op |-> "Tilde", rest |-> Drop(input, 1)]
    ELSE IF StartsWith(input, "^") THEN [op |-> "Caret", rest |-> Drop(input, 1)]
    ELSE [op |-> "Caret", rest |-> input]

\* the length of the longest prefix of digits
RECURSIVE DigitPrefixLen(_)
DigitPrefixLen(s) ==
    IF s # <<>> /\ IsDigit(s[1]) THEN 1 + DigitPrefixLen(Tail(s)) ELSE 0

\* parse::numeric_identifier
NumericIdentifier(input) ==
    LET len == DigitPrefixLen(input)
    IN  IF len = 0 THEN Err("UnexpectedCharOrEnd")
        ELSE IF len > 1 /\ input[1] = "0" THEN Err("LeadingZero")
        ELSE Ok([value |-> DecValue(SubSeq(input, 1, len)), rest |-> Drop(input, len)])

\* parse::comparator, after a '.': a wildcard or a number
ParsePart(text) ==
    IF text # <<>> /\ IsWildcardChar(text[1])
    THEN Ok([wildcard |-> TRUE, number |-> None, rest |-> Drop(text, 1)])
    ELSE IF NumericIdentifier(text).tag = "Err" THEN NumericIdentifier(text)
    ELSE Ok([wildcard |-> FALSE,
             number |-> Some(NumericIdentifier(text).val.value),
             rest |-> NumericIdentifier(text).val.rest])

\* no '.': the part is absent and nothing is consumed
NoPart(text) == Ok([wildcard |-> FALSE, number |-> None, rest |-> text])

\* parse::comparator, the minor: (minor, text)
ParseMinor(text) ==
    IF StartsWith(text, ".") THEN ParsePart(Drop(text, 1)) ELSE NoPart(text)

\* parse::comparator, the patch: a number may not follow a wildcard minor
ParsePatch(text, has_wildcard) ==
    IF ~StartsWith(text, ".") THEN NoPart(text)
    ELSE IF has_wildcard /\ ~(Len(text) >= 2 /\ IsWildcardChar(text[2]))
         THEN Err("UnexpectedAfterWildcard")
    ELSE ParsePart(Drop(text, 1))

\* parse::comparator, the Comparator built from its parts
ComparatorOfParts(op, default_op, major, minor, patch) ==
    IF patch.tag = "Err" THEN patch
    ELSE Ok([comparator |->
                 Comparator(IF default_op /\ (minor.val.wildcard \/ patch.val.wildcard)
                            THEN "Wildcard" ELSE op,
                            major.val.value, minor.val.number, patch.val.number),
             rest |-> patch.val.rest])

ComparatorAfterMinor(op, default_op, major, minor) ==
    IF minor.tag = "Err" THEN minor
    ELSE ComparatorOfParts(op, default_op, major, minor,
                           ParsePatch(minor.val.rest, minor.val.wildcard))

ComparatorAfterMajor(op, default_op, major) ==
    IF major.tag = "Err" THEN major
    ELSE ComparatorAfterMinor(op, default_op, major, ParseMinor(major.val.rest))

\* parse::comparator
ParseComparator(input) ==
    ComparatorAfterMajor(ParseOp(input).op,
                         Len(ParseOp(input).rest) = Len(input),
                         NumericIdentifier(ParseOp(input).rest))

\* parse::version_req: comparators separated by commas
RECURSIVE VersionReqAfter(_)
VersionReqAfter(c) ==
    IF c.tag = "Err" THEN c
    ELSE IF c.val.rest = <<>> THEN Ok(<<c.val.comparator>>)
    ELSE IF ~StartsWith(c.val.rest, ",") THEN Err("ExpectedCommaFound")
    ELSE IF VersionReqAfter(ParseComparator(Drop(c.val.rest, 1))).tag = "Err"
         THEN VersionReqAfter(ParseComparator(Drop(c.val.rest, 1)))
    ELSE Ok(<<c.val.comparator>>
            \o VersionReqAfter(ParseComparator(Drop(c.val.rest, 1))).val)

ParseVersionReq(input) == VersionReqAfter(ParseComparator(input))

\* VersionReq::parse: Ok(comparators) or Err
VersionReqParse(text) ==
    IF text # <<>> /\ IsWildcardChar(text[1])
    THEN IF Len(text) = 1 THEN Ok(<<>>)
         ELSE IF text[2] = "," THEN Err("WildcardNotTheOnlyComparator")
         ELSE Err("UnexpectedAfterWildcard")
    ELSE ParseVersionReq(text)

(***************************************************************************)
(* Versions::parse_package_details.                                        *)
(***************************************************************************)
PackageDetails(name, comparator) == [name |-> name, comparator |-> comparator]

parse_package_details(d) ==
    LET split == Split(d, "@")
        name == split[1]
    IN  IF split = <<>> THEN Panic("Provided package name is empty")
        ELSE IF Len(split) < 2 THEN Ok(PackageDetails(name, None))
        ELSE IF split[2] = LATEST THEN Ok(PackageDetails(name, None))
        ELSE LET version == VersionReqParse(split[2])
             IN  IF version.tag = "Err"
                 THEN Err([error |-> "InvalidVersionNotation", arg |-> version.val])
                 ELSE IF version.val = <<>> THEN Panic("Missing version comparator")
                 ELSE Ok(PackageDetails(name, Some(version.val[1])))

(***************************************************************************)
(* The resolver, called on a constraint and a catalog.                     *)
(***************************************************************************)
V100 == <<"1", ".", "0", ".", "0">>
V110 == <<"1", ".", "1", ".", "0">>
V120 == <<"1", ".", "2", ".", "0">>
V200 == <<"2", ".", "0", ".", "0">>
V1000 == <<"1", "0", ".", "0", ".", "0">>
BOGUS == <<"b", "o", "g", "u", "s">>

\* the version strings a registry may have published
PublishedVersions == {V100, V110, V120, V200, V1000, BOGUS}

\* the orders in which a HashMap with these keys may yield them
IterationOrders(keys) ==
    {o \in [1..Cardinality(keys) -> keys] :
        \A i, j \in 1..Cardinality(keys) : i # j => o[i] # o[j]}

InitResolve ==
    /\ semantic_version \in {None} \cup {Some(c) : c \in Comparators}
    /\ available_versions \in
          {S \in SUBSET PublishedVersions : Cardinality(S) <= MaxCatalog}
    /\ iter_order = <<>>
    /\ overflow_checks = FALSE
    /\ op_called = "none"
    /\ result = NoValue
    /\ IdleDispatch
    /\ IdleParse

ResolveFull ==
    /\ op_called = "none"
    /\ op_called' = "resolve_full_version"
    /\ result' = resolve_full_version(semantic_version)
    /\ UNCHANGED <<semantic_version, available_versions, iter_order,
                   overflow_checks, dvars, pvars>>

ResolvePartial ==
    /\ op_called = "none"
    /\ op_called' = "resolve_partial_version"
    /\ \E order \in IterationOrders(available_versions), checks \in BOOLEAN :
          /\ iter_order' = order
          /\ overflow_checks' = checks
          /\ result' = resolve_partial_version(semantic_version, order, checks)
    /\ UNCHANGED <<semantic_version, available_versions, dvars, pvars>>

NextResolve ==
    \/ ResolveFull
    \/ ResolvePartial

\* one call of a resolver function
SpecResolve == InitResolve /\ [][NextResolve]_vars

(***************************************************************************)
(* The specifier parser, called on a string.                               *)
(***************************************************************************)
SpecifierChars == {"a", "@", "1", ".", "<", "*"}

\* the strings of at most n specifier characters
StringsUpTo(n) == UNION {[1..k -> SpecifierChars] : k \in 0..n}

Specifiers ==
    StringsUpTo(MaxLen)
        \cup {PKG, PKG \o <<"@">> \o LATEST, <<"@">> \o LATEST,
              PKG \o <<"@">> \o V120, <<"@">> \o V100,
              PKG \o <<"@", "^", "1">>,
              PKG \o <<"@", "<">> \o V120,
              PKG \o <<"@", ">", "=">> \o V100 \o <<",", "<">> \o V200,
              PKG \o <<"@", "1", ".", "0", "1">>,
              PKG \o <<"@">> \o V100 \o <<"@">> \o V200}

InitParse ==
    /\ details \in Specifiers
    /\ parsed = NoValue
    /\ IdleDispatch
    /\ IdleResolve

ParsePackageDetails ==
    /\ parsed = NoValue
    /\ parsed' = parse_package_details(details)
    /\ UNCHANGED <<details, dvars, rvars>>

NextParse == ParsePackageDetails

\* one call of parse_package_details
SpecParse == InitParse /\ [][NextParse]_vars

(***************************************************************************)
(* Properties of handle_args, checked under Spec.                          *)
(***************************************************************************)
\* C1: execute is invoked only after parse returned Ok; parse and execute
\* are invoked at most once each, parse first; when parse returns a
\* ParseError, execute is not invoked and handle_args returns that error.
C1_ExecuteOnlyAfterParseOk ==
    /\ calls \in {<<>>, <<"parse">>, <<"parse", "execute">>}
    /\ (calls # <<>> => parse_result.tag \in {"Ok", "Err"})
    /\ (Len(calls) = 2 => parse_result.tag = "Ok")
    /\ (parse_result.tag = "Err" =>
            /\ calls = <<"parse">>
            /\ pc = "done"
            /\ ret = parse_result
            /\ command_result = NoValue)

C1_Witness ==
    /\ pc = "done"
    /\ parse_result.tag = "Err"
    /\ ret = parse_result
    /\ calls = <<"parse">>

\* C2: once a known command was parsed successfully, handle_args returns
\* Ok whatever execute returned; a CommandError is printed, not returned.
C2_ExecuteErrorNotFatal ==
    (pc = "done" /\ command_handler = "Installer" /\ parse_result.tag = "Ok") =>
        /\ command_result.tag \in {"Ok", "Err"}
        /\ ret = Ok(<<>>)
        /\ (command_result.tag = "Err" =>
                /\ stdout = <<<<"Command error: ", command_result.val.error>>>>
                /\ ret # command_result)
        /\ (command_result.tag = "Ok" => stdout = <<>>)

C2_Witness ==
    /\ pc = "done"
    /\ command_result.tag = "Err"
    /\ command_result.val.error = "InvalidVersion"
    /\ ret = Ok(<<>>)

\* C3: the install handler is selected exactly for the casings of
\* "install"; any other token fails with CommandNotFound carrying the
\* token as given, and no handler method is invoked.
C3_CommandSelection ==
    (pc # "start" /\ Len(argv) >= 2) =>
        IF argv[2] \in Casings(INSTALL)
        THEN /\ command_handler = "Installer"
             /\ (ret.tag = "Err" => ret.val.error # "CommandNotFound")
        ELSE /\ command_handler = "none"
             /\ pc = "done"
             /\ ret = Err(CommandNotFound(argv[2]))
             /\ calls = <<>>
             /\ parse_result = NoValue
             /\ command_result = NoValue

C3_Witness ==
    /\ pc = "done"
    /\ Len(argv) >= 2
    /\ argv[2] = <<"R", "e", "M", "o", "v", "e">>
    /\ ret = Err(CommandNotFound(<<"R", "e", "M", "o", "v", "e">>))
    /\ calls = <<>>

(***************************************************************************)
(* Properties of the resolver, checked under SpecResolve.                  *)
(***************************************************************************)
HasFullTriple(c) == c.minor.tag = "Some" /\ c.patch.tag = "Some"

\* the constraint takes the Less-with-full-triple path
LessWithFullTriple ==
    /\ semantic_version.tag = "Some"
    /\ semantic_version.val.op = "Less"
    /\ HasFullTriple(semantic_version.val)

\* "{major}.{minor}.{patch}" of the constraint
ConstraintTriple ==
    to_string(semantic_version.val.major, semantic_version.val.minor.val,
              semantic_version.val.patch.val)

\* the catalog keys whose parsed version matches the constraint
MatchingKeys ==
    {k \in available_versions :
        matches(semantic_version.val, VersionFromStrOrEmpty(k))}

\* the greatest of a non-empty set of strings, in byte-wise order
LexGreatest(S) == CHOOSE k \in S : \A j \in S : j = k \/ StrLess(j, k)

\* C4: resolve_full_version follows the decision table: no constraint gives
\* "latest"; a missing minor or patch gives None; with a full triple,
\* Greater, GreaterEq and Wildcard give "latest", Exact, LessEq, Tilde and
\* Caret give the constraint's own "major.minor.patch", Less gives None.
\* The catalog is not iterated.
C4_ResolveFullTable ==
    op_called = "resolve_full_version" =>
        /\ iter_order = <<>>
        /\ IF semantic_version.tag = "None" THEN result = Some(LATEST)
           ELSE IF ~HasFullTriple(semantic_version.val) THEN result = None
           ELSE CASE semantic_version.val.op \in {"Greater", "GreaterEq", "Wildcard"} ->
                        result = Some(LATEST)
                  [] semantic_version.val.op \in {"Exact", "LessEq", "Tilde", "Caret"} ->
                        /\ result.tag = "Some"
                        /\ Split(result.val, ".") =
                              <<ToDec(semantic_version.val.major),
                                ToDec(semantic_version.val.minor.val),
                                ToDec(semantic_version.val.patch.val)>>
                        /\ VersionFromStrOrEmpty(result.val) =
                              Version(semantic_version.val.major,
                                      semantic_version.val.minor.val,
                                      semantic_version.val.patch.val)
                  [] semantic_version.val.op = "Less" -> result = None

C4_Witness ==
    /\ op_called = "resolve_full_version"
    /\ semantic_version = Some(Comparator("Less", 1, Some(2), Some(0)))
    /\ result = None

\* C5: for a Less constraint with a full triple whose string is a key of
\* the catalog and not the smallest key, resolve_partial_version returns the
\* key just before it in byte-wise order, whatever order the map yields.
C5_LessReturnsPredecessor ==
    (/\ op_called = "resolve_partial_version"
     /\ LessWithFullTriple
     /\ ConstraintTriple \in available_versions
     /\ \E k \in available_versions : StrLess(k, ConstraintTriple)) =>
        result = Ok(LexGreatest({k \in available_versions :
                                    StrLess(k, ConstraintTriple)}))

C5_Witness ==
    /\ op_called = "resolve_partial_version"
    /\ semantic_version = Some(Comparator("Less", 1, Some(2), Some(0)))
    /\ available_versions = {V100, V110, V120}
    /\ iter_order = <<V120, V100, V110>>
    /\ result = Ok(V110)

\* C6: for a Less constraint with a full triple whose string is the smallest
\* key of the catalog, resolve_partial_version returns the error
\* InvalidVersion (it does not abort).
C6_LessSmallestIsInvalidVersion ==
    (/\ op_called = "resolve_partial_version"
     /\ LessWithFullTriple
     /\ ConstraintTriple \in available_versions
     /\ ~\E k \in available_versions : StrLess(k, ConstraintTriple)) =>
        result = Err("InvalidVersion")

\* C7: for a constraint off the Less-with-full-triple path,
\* resolve_partial_version returns the byte-wise greatest key whose parsed
\* version matches, whatever order the map yields its keys.
C7_GreatestMatchingKey ==
    (/\ op_called = "resolve_partial_version"
     /\ semantic_version.tag = "Some"
     /\ ~LessWithFullTriple
     /\ MatchingKeys # {}) =>
        result = Ok(LexGreatest(MatchingKeys))

\* C8: a version returned by resolve_partial_version is a key of the
\* catalog, and no step changes the catalog.
C8_ResultIsCatalogKey ==
    [][/\ available_versions' = available_versions
       /\ (op_called' = "resolve_partial_version" /\ result'.tag = "Ok" =>
              result'.val \in available_versions)]_vars

C8_Witness ==
    /\ op_called = "resolve_partial_version"
    /\ semantic_version = Some(Comparator("Less", 1, None, None))
    /\ available_versions = {BOGUS, V100}
    /\ result = Ok(BOGUS)

\* C9: resolve_partial_version returns the error InvalidVersion when a Less
\* constraint with a full triple names a string that is no key of the
\* catalog (even if some key would match), and for any other constraint
\* when no key's parsed version matches, the empty catalog included.
C9_UnsatisfiableIsInvalidVersion ==
    (op_called = "resolve_partial_version" /\ semantic_version.tag = "Some") =>
        /\ (LessWithFullTriple /\ ConstraintTriple \notin available_versions =>
                result = Err("InvalidVersion"))
        /\ (~LessWithFullTriple /\ MatchingKeys = {} =>
                result = Err("InvalidVersion"))

C9_Witness ==
    /\ op_called = "resolve_partial_version"
    /\ semantic_version = Some(Comparator("Less", 2, Some(0), Some(0)))
    /\ available_versions = {V100}
    /\ MatchingKeys = {V100}
    /\ result = Err("InvalidVersion")

(***************************************************************************)
(* Properties of parse_package_details, checked under SpecParse.           *)
(***************************************************************************)
\* C10: a specifier that parse_package_details accepts has a non-empty
\* name, the text before the first '@'.
C10_NameNonEmpty ==
    parsed.tag = "Ok" =>
        /\ parsed.val.name # <<>>
        /\ parsed.val.name = Split(details, "@")[1]

====
